---- MODULE Spec2Model ----
(***************************************************************************)
(* A model of src/src/chrome-launcher.ts: the facade (launch, killAll, the *)
(* SIGINT listener), the process-wide registry `instances`, and the        *)
(* Launcher class (constructor, prepare, launch, spawnProcess,             *)
(* waitUntilReady, kill, destroyTmp, the flags getter).                    *)
(*                                                                         *)
(* Specifications: SpecOne (one launch() with every option), Spec (the     *)
(* registry with several launches), SpecOneLive (SpecOne with fairness),   *)
(* SpecFlags (the argument list), SpecAgain (a Launcher used directly,     *)
(* launch() called twice), SpecPrefs (one launch() with preference         *)
(* overrides).                                                             *)
(*                                                                         *)
(* JavaScript runs one callback at a time.  Every action below is one      *)
(* synchronous run of code: from a call or the delivery of an event up to  *)
(* the next suspension (await of a probe, of getRandomPort, of a delay, of *)
(* a kill promise, or of the rm callback).                                 *)
(***************************************************************************)
EXTENDS Naturals, Integers, FiniteSets, Sequences, TLC

\* ---------------------------------------------------------------- bounds
\* Number of launch() calls the host makes.
MaxInst == 2
\* Largest maxConnectionRetries a caller passes.
MaxRetries == 1
\* Number of times the host calls killAll() itself.
MaxKillAll == 1
\* Number of times the host calls the kill() of one handle, or of one
\* Launcher it constructed itself.
MaxHandleKills == 1

\* ----------------------------------------------------- program constants
\* _SIGINT_EXIT_CODE
SIGINT_EXIT_CODE == 130
\* A caller-fixed debugging port (any non-zero value) and the port that
\* getRandomPort() hands out.
FixedPort == 9222
RandomPort == 40000

Inst == 1..MaxInst
\* getPlatform(): the four of _SUPPORTED_PLATFORMS and one outside them.
SUPPORTED_PLATFORMS == {"darwin", "linux", "win32", "wsl"}
Platforms == SUPPORTED_PLATFORMS \cup {"freebsd"}

\* The callers of Launcher.kill(): the kill closure of the handle that
\* launch() returned for instance i, the two killAll() activations (the
\* host's own call and the one made by sigintListener), and the host
\* calling kill() on a Launcher it constructed itself.
Tasks == {"user", "sigint"}
HandleOf(i) == <<"handle", i>>
TaskCaller(t) == <<t, 0>>
DirectOf(i) == <<"direct", i>>
Callers ==
  {HandleOf(i) : i \in Inst} \cup {TaskCaller(t) : t \in Tasks}
    \cup {DirectOf(i) : i \in Inst}

VARIABLES
  platform,   \* getPlatform(), fixed for the life of the host process
  inst,       \* per launch() call: options, Launcher fields, launch promise,
              \* the child process and the files of that Launcher
  instances,  \* the module-level Set<Launcher>
  listeners,  \* number of registrations of sigintListener on process
  kp,         \* per caller: the promise of its latest Launcher.kill() call
  ka,         \* per killAll activation: loop position and errors
  host        \* the host process: up, or down with the code of process.exit

vars == <<platform, inst, instances, listeners, kp, ka, host>>

isWindows == platform = "win32"
isWsl == platform = "wsl"

\* ---------------------------------------------------------------- state
\* An instance slot before launch() is called for it.
NoInstance ==
  [ created       |-> FALSE,    \* new Launcher(opts) returned
    \* opts
    optUDD        |-> "undef",  \* opts.userDataDir: "undef" | "path" | "false" | "true"
    handleSIGINT  |-> TRUE,
    requestedPort |-> 0,
    maxRetries    |-> 0,
    \* Launcher fields
    ignoreDefaultFlags |-> FALSE,
    chromeFlags   |-> <<>>,
    startingUrl   |-> "about:blank",
    prefs         |-> {},       \* this.prefs: the keys of the overrides
    useDefaultProfile |-> FALSE,
    userDataDir   |-> "undef",  \* this.userDataDir: "undef" | "path" | "tmp"
    outFile       |-> FALSE,    \* this.outFile holds a descriptor
    errFile       |-> FALSE,
    pidFile       |-> FALSE,    \* this.pidFile holds the path
    ready         |-> FALSE,    \* tmpDirandPidFileReady
    chromePath    |-> FALSE,    \* this.chromePath is set
    port          |-> 0,        \* this.port, 0 for undefined
    chrome        |-> FALSE,    \* this.chrome holds a ChildProcess
    pid           |-> 0,        \* this.pid, 0 for undefined
    \* the promise of launch(): "none" | "portcheck" | "getport" | "probing"
    \* | "delay" | "resolved" | "rejected" | "hung"
    pc            |-> "none",
    err           |-> "none",   \* the error launch() rejected with
    retries       |-> 0,        \* waitUntilReady's counter
    ret           |-> 0,        \* the pid spawnProcess is going to return
    \* a second call of Launcher.launch() on the same Launcher: its promise,
    \* error, counter and pid, and what was there when it began (history)
    again         |-> [pc |-> "none", err |-> "none", retries |-> 0,
                       ret |-> 0, attached |-> FALSE, spawns0 |-> 0,
                       allocs0 |-> 0, writes0 |-> 0, pid0 |-> 0],
    \* the handle launch() resolved with
    handlePort    |-> 0,
    handlePid     |-> FALSE,
    \* the child process: "none" | "alive" | "nopid" | "exited"
    proc          |-> "none",
    childPid      |-> 0,        \* the pid of the latest child, 0 for none
    signalled     |-> FALSE,    \* a termination reached it, exit pending
    closeL        |-> {},       \* callers whose kill() registered on 'close'
    \* the file system: directories "none" | "exists" | "removed",
    \* descriptors "none" | "open" | "closed"
    tmpDir        |-> "none",   \* the directory makeTmpDir() returned
    pathDir       |-> "none",   \* the directory the caller passed
    fdOut         |-> "none",
    fdErr         |-> "none",
    rmPending     |-> FALSE,    \* fs.rm issued, callback not yet run
    \* the Preferences file as the Launcher left it: "none" | "created"
    \* | "merged"
    prefsFile     |-> "none",
    flags         |-> <<>>,     \* the arguments of the latest spawn call
    \* history
    dirMakes      |-> 0,        \* calls of makeTmpDir
    outOpens      |-> 0,        \* opens of chrome-out.log
    errOpens      |-> 0,        \* opens of chrome-err.log
    prefsLogged   |-> 0,        \* failures setBrowserPrefs caught and logged
    probedPort    |-> 0,        \* the port of the latest probe
    portProbes    |-> 0,        \* probes made by the port check
    portCheckOK   |-> FALSE,    \* the port check's probe connected
    probes        |-> 0,        \* probes made by waitUntilReady
    probeOK       |-> FALSE,    \* some waitUntilReady probe connected
    delays        |-> 0,        \* delays waited by waitUntilReady
    spawns        |-> 0,        \* processes started
    portAllocs    |-> 0,        \* calls of getRandomPort
    pidWrites     |-> 0,        \* writes of the pid file
    killsSent     |-> 0,        \* terminations issued that did not throw
    killedOK      |-> FALSE ]   \* some kill() of it resolved

\* A kill() promise: "idle" | "pending" | "rm" | "resolved" | "rejected".
IdlePromise == [st |-> "idle", target |-> 0, calls |-> 0]
\* A killAll activation: "idle" | "awaiting" | "done"; cur is the instance
\* whose kill() it awaits, errors the instances whose error it pushed.
\* History: rejected (instances whose kill() rejected in this call),
\* atCall (the registry when killAll was called), startEmpty, calls,
\* disturbed and overlapped.
IdleTask == [pc |-> "idle", cur |-> 0, errors |-> <<>>, rejected |-> {},
             atCall |-> {}, startEmpty |-> FALSE, calls |-> 0,
             disturbed |-> FALSE, overlapped |-> FALSE]


\* --------------------------------------------------------------- Launcher
\* defaults(o[k], d): the option, or d when the caller left it out.
Defaults(o, k, d) == IF k \in DOMAIN o THEN o[k] ELSE d

\* new Launcher(opts) for opts.userDataDir other than true: the defaults
\* and the user-data-directory branch of the constructor.
Constructor(o) ==
  [NoInstance EXCEPT
     !.startingUrl = Defaults(o, "startingUrl", "about:blank"),
     !.chromeFlags = Defaults(o, "chromeFlags", <<>>),
     !.prefs = Defaults(o, "prefs", {}),
     !.ignoreDefaultFlags = Defaults(o, "ignoreDefaultFlags", FALSE),
     !.useDefaultProfile = (o.udd = "false"),
     !.created = TRUE,
     !.optUDD = o.udd,
     !.handleSIGINT = o.handleSIGINT,
     !.requestedPort = o.port,
     !.maxRetries = o.maxRetries,
     !.chromePath = o.chromePath,
     !.userDataDir = IF o.udd = "path" THEN "path" ELSE "undef",
     !.pathDir = IF o.udd = "path" THEN "exists" ELSE "none"]

\* launch() rejects with error e.
Reject(b, e) == [b EXCEPT !.pc = "rejected", !.err = e]

\* Mutant of Resolve: the handle carries the port the caller asked for.
ResolveRequestedPort(b) ==
  [b EXCEPT !.pc = "resolved", !.handlePort = b.requestedPort,
            !.handlePid = (b.proc \in {"alive", "exited"})]

\* launch() resolves and the facade builds the handle {pid, port, kill}.
Resolve(b) ==
  [b EXCEPT !.pc = "resolved", !.handlePort = b.port,
            !.handlePid = (b.proc \in {"alive", "exited"})]

\* One run of waitUntilReady's poll(): count the attempt, start a probe.
Poll(b) ==
  [b EXCEPT !.retries = @ + 1, !.probes = @ + 1, !.pc = "probing",
            !.probedPort = b.port]

\* waitUntilReady(): retries starts at 0, then the first poll().
WaitUntilReady(b) == Poll([b EXCEPT !.retries = 0])

\* `${n}` for a number: its decimal digits.
Digit(d) ==
  CASE d = 0 -> "0" [] d = 1 -> "1" [] d = 2 -> "2" [] d = 3 -> "3"
    [] d = 4 -> "4" [] d = 5 -> "5" [] d = 6 -> "6" [] d = 7 -> "7"
    [] d = 8 -> "8" [] d = 9 -> "9"

RECURSIVE Dec(_)
Dec(n) == IF n < 10 THEN Digit(n) ELSE Dec(n \div 10) \o Digit(n % 10)

\* The imported DEFAULT_FLAGS: a fixed list, here of two flags.
DEFAULT_FLAGS == <<"--disable-sync", "--no-first-run">>

\* The imported toWin32Path: the Windows form of a path.
ToWin32Path(d) == "C:" \o d

\* this.userDataDir as text: the name makeTmpDir() returned, or the path
\* the caller passed.
DirText(b) ==
  IF b.userDataDir = "tmp" THEN "/tmp/lighthouse.X"
  ELSE IF b.userDataDir = "path" THEN "/home/u/profile"
  ELSE "undefined"

\* Mutant of Flags: the sandbox flag is pushed on every platform.
FlagsSandboxEverywhere(b) ==
  LET f0 == IF b.ignoreDefaultFlags THEN <<>> ELSE DEFAULT_FLAGS
      f1 == Append(f0, "--remote-debugging-port=" \o Dec(b.port))
      f2 == IF ~b.ignoreDefaultFlags
            THEN Append(f1, "--disable-setuid-sandbox") ELSE f1
      f3 == IF ~b.useDefaultProfile
            THEN Append(f2, "--user-data-dir=" \o
                   (IF isWsl THEN ToWin32Path(DirText(b)) ELSE DirText(b)))
            ELSE f2
  IN  Append(f3 \o b.chromeFlags, b.startingUrl)

\* The flags getter: one push after the other.
Flags(b) ==
  LET f0 == IF b.ignoreDefaultFlags THEN <<>> ELSE DEFAULT_FLAGS
      f1 == Append(f0, "--remote-debugging-port=" \o Dec(b.port))
      f2 == IF ~b.ignoreDefaultFlags /\ platform = "linux"
            THEN Append(f1, "--disable-setuid-sandbox") ELSE f1
      f3 == IF ~b.useDefaultProfile
            THEN Append(f2, "--user-data-dir=" \o
                   (IF isWsl THEN ToWin32Path(DirText(b)) ELSE DirText(b)))
            ELSE f2
  IN  Append(f3 \o b.chromeFlags, b.startingUrl)

\* The directory this.userDataDir resolved to exists, so a file can be
\* written in it.
DirExists(b) ==
  \/ b.userDataDir = "tmp" /\ b.tmpDir = "exists"
  \/ b.userDataDir = "path" /\ b.pathDir = "exists"

\* spawnProcess from the spawn call on: this.spawn(execPath, this.flags,
\* ...) throws, or returns a child with or without a pid; the pid is
\* written to the pid file, which throws when the directory is gone; then
\* waitUntilReady().
SpawnBody(b, e) ==
  IF e.spawn = "throw" THEN Reject(b, "SpawnFailure")
  ELSE LET b1 == [b EXCEPT !.chrome = TRUE,
                           !.flags = Flags(b),
                           !.proc = IF e.spawn = "pid" THEN "alive" ELSE "nopid",
                           !.childPid = IF e.spawn = "pid" THEN b.spawns + 1 ELSE 0,
                           !.signalled = FALSE,
                           !.closeL = {},
                           !.spawns = @ + 1]
       IN  IF e.spawn = "pid" /\ ~DirExists(b)
           THEN Reject(b1, "PidFileWriteFailure")
           ELSE WaitUntilReady(
                  [b1 EXCEPT !.ret = b1.childPid,
                             !.pidWrites = IF e.spawn = "pid" THEN @ + 1 ELSE @])

\* Mutant of SpawnProcess: the `if (this.chrome)` test is missing.
SpawnProcessAlways(b, e) ==
  IF b.requestedPort = 0
  THEN [b EXCEPT !.pc = "getport", !.portAllocs = @ + 1]
  ELSE SpawnBody(b, e)

\* spawnProcess up to its first suspension: with a process attached its
\* pid is the result and only waitUntilReady() runs.
SpawnProcess(b, e) ==
  IF b.chrome THEN WaitUntilReady([b EXCEPT !.ret = b.childPid])
  ELSE IF b.requestedPort = 0
       THEN [b EXCEPT !.pc = "getport", !.portAllocs = @ + 1]
  ELSE SpawnBody(b, e)

\* `this.pid = await this.spawnProcess(...)` once waitUntilReady resolved.
SpawnReturned(b) == [b EXCEPT !.pid = b.ret]

\* Mutant of SetBrowserPrefs: no try/catch, a failure in the merge leaves
\* setBrowserPrefs (and prepare) as an exception.
SetBrowserPrefsThrows(b, e) ==
  IF b.prefs = {} THEN b
  ELSE LET io == Defaults(e, "prefs", "absent") IN
       IF io = "absent" THEN [b EXCEPT !.prefsFile = "created"]
       ELSE IF io = "present" THEN [b EXCEPT !.prefsFile = "merged"]
       ELSE Reject(b, "PrefsFailure")

\* setBrowserPrefs: nothing for empty overrides; otherwise merge the
\* overrides into the Preferences file, or create it.  The environment
\* says how the file system answers: "absent" (no file, written), "present"
\* (read, parsed, written), or a failure of existsSync, readFileSync,
\* JSON.parse or writeFileSync, which the catch logs.
SetBrowserPrefs(b, e) ==
  IF b.prefs = {} THEN b
  ELSE LET io == Defaults(e, "prefs", "absent") IN
       IF io = "absent" THEN [b EXCEPT !.prefsFile = "created"]
       ELSE IF io = "present" THEN [b EXCEPT !.prefsFile = "merged"]
       ELSE [b EXCEPT !.prefsLogged = @ + 1]

\* prepare(): platform check, directory, the two log files, the ready flag.
\* e.io names the openSync call that throws, if any.
Prepare(b, e) ==
  IF platform \notin SUPPORTED_PLATFORMS THEN Reject(b, "UnsupportedPlatform")
  ELSE
    LET b1 == IF b.userDataDir = "undef"
              THEN [b EXCEPT !.userDataDir = "tmp", !.tmpDir = "exists",
                             !.dirMakes = @ + 1]
              ELSE b
        b2 == [b1 EXCEPT !.outFile = TRUE, !.fdOut = "open",
                         !.outOpens = @ + 1]
        b3 == [b2 EXCEPT !.errFile = TRUE, !.fdErr = "open",
                         !.errOpens = @ + 1]
        b4 == SetBrowserPrefs(b3, e)
    IN  IF e.io = "out" THEN Reject(b1, "OpenFailure")
        ELSE IF e.io = "err" THEN Reject(b2, "OpenFailure")
        ELSE IF b4.pc = "rejected" THEN b4
        ELSE [b4 EXCEPT !.pidFile = TRUE, !.ready = TRUE]

\* Mutant of LaunchRest: prepare() is not called before the spawn.
LaunchRestUnprepared(b, e) ==
  LET b1 == IF b.chromePath THEN b
            ELSE IF platform \notin SUPPORTED_PLATFORMS
                 THEN Reject(b, "TypeError")
            ELSE IF ~e.install THEN Reject(b, "ChromeNotInstalled")
            ELSE [b EXCEPT !.chromePath = TRUE]
  IN  IF b1.pc = "rejected" THEN b1 ELSE SpawnProcess(b1, e)

\* Launcher.launch after the port check: resolve the executable, prepare
\* once, spawn.  On a platform outside the four, chromeFinder has no
\* function of that name and getFirstInstallation throws a TypeError.
LaunchRest(b, e) ==
  LET b1 == IF b.chromePath THEN b
            ELSE IF platform \notin SUPPORTED_PLATFORMS
                 THEN Reject(b, "TypeError")
            ELSE IF ~e.install THEN Reject(b, "ChromeNotInstalled")
            ELSE [b EXCEPT !.chromePath = TRUE]
      b2 == IF b1.pc = "rejected" \/ b1.ready THEN b1 ELSE Prepare(b1, e)
  IN  IF b2.pc = "rejected" THEN b2 ELSE SpawnProcess(b2, e)

\* Launcher.launch up to its first suspension.
LauncherLaunch(b, e) ==
  IF b.requestedPort # 0
  THEN [b EXCEPT !.port = b.requestedPort, !.pc = "portcheck",
                 !.portProbes = @ + 1, !.probedPort = b.requestedPort]
  ELSE LaunchRest(b, e)

\* The directory whose chrome-err.log waitUntilReady reads still exists.
ErrLogReadable(b) ==
  \/ b.userDataDir = "tmp" /\ b.tmpDir = "exists"
  \/ b.userDataDir = "path" /\ b.pathDir = "exists"

\* The catch branch of a failed readiness probe.
ProbeFailed(b) ==
  IF b.retries > b.maxRetries
  THEN IF ErrLogReadable(b) THEN Reject(b, "ConnectionTimeout")
       ELSE [b EXCEPT !.pc = "hung"]
  ELSE [b EXCEPT !.pc = "delay", !.delays = @ + 1]

\* Mutant of DestroyTmp: the ownership test `this.opts.userDataDir !==
\* undefined` is missing, so any resolved directory is removed.
DestroyTmpAnyDir(b) ==
  IF b.userDataDir = "undef" THEN b
  ELSE [b EXCEPT !.outFile = FALSE,
                 !.fdOut = IF b.outFile THEN "closed" ELSE @,
                 !.errFile = FALSE,
                 !.fdErr = IF b.errFile THEN "closed" ELSE @,
                 !.rmPending = TRUE]

\* destroyTmp() up to the rm call: nothing for a directory the Launcher did
\* not create, else close and forget both descriptors and issue rm.
DestroyTmp(b) ==
  IF b.userDataDir = "undef" \/ b.optUDD # "undef" THEN b
  ELSE [b EXCEPT !.outFile = FALSE,
                 !.fdOut = IF b.outFile THEN "closed" ELSE @,
                 !.errFile = FALSE,
                 !.fdErr = IF b.errFile THEN "closed" ELSE @,
                 !.rmPending = TRUE]

\* rm(this.userDataDir, {recursive: true}, cb) has run.
RmTree(b) ==
  [b EXCEPT !.tmpDir = IF b.userDataDir = "tmp" THEN "removed" ELSE @,
            !.pathDir = IF b.userDataDir = "path" THEN "removed" ELSE @,
            !.rmPending = FALSE]

\* Mutant of Kill: the catch block cleans up, as if the process were gone
\* (delete this.chrome and destroyTmp() before reject).
KillCleansOnError(b, c, ok) ==
  IF ~b.chrome THEN [b |-> [b EXCEPT !.killedOK = TRUE], st |-> "resolved"]
  ELSE
    LET b1 == [b EXCEPT !.closeL = @ \cup {c}]
        sent == [b1 EXCEPT !.killsSent = @ + 1,
                           !.signalled = (b.proc = "alive")]
        failed == DestroyTmp([b1 EXCEPT !.chrome = FALSE])
    IN  IF isWindows
        THEN IF b.proc = "alive" /\ ok
             THEN [b |-> sent, st |-> "pending"]
             ELSE [b |-> failed, st |-> "rejected"]
        ELSE IF b.proc = "nopid" THEN [b |-> b1, st |-> "pending"]
             ELSE IF ok THEN [b |-> sent, st |-> "pending"]
             ELSE [b |-> failed, st |-> "rejected"]

\* Mutant of Kill: without a process the else branch still runs
\* destroyTmp() before it resolves.
KillDestroysWithoutProcess(b, c, ok) ==
  IF ~b.chrome
  THEN [b |-> [DestroyTmp(b) EXCEPT !.killedOK = TRUE], st |-> "resolved"]
  ELSE
    LET b1 == [b EXCEPT !.closeL = @ \cup {c}]
        sent == [b1 EXCEPT !.killsSent = @ + 1,
                           !.signalled = (b.proc = "alive")]
    IN  IF isWindows
        THEN IF b.proc = "alive" /\ ok
             THEN [b |-> sent, st |-> "pending"]
             ELSE [b |-> b1, st |-> "rejected"]
        ELSE IF b.proc = "nopid" THEN [b |-> b1, st |-> "pending"]
             ELSE IF ok THEN [b |-> sent, st |-> "pending"]
             ELSE [b |-> b1, st |-> "rejected"]

\* The executor of kill()'s promise, run by caller c.  ok: the OS accepts
\* the termination (taskkill succeeds, process.kill does not throw).
\* Result: the Launcher and the state of the promise.
Kill(b, c, ok) ==
  IF ~b.chrome THEN [b |-> [b EXCEPT !.killedOK = TRUE], st |-> "resolved"]
  ELSE
    LET b1 == [b EXCEPT !.closeL = @ \cup {c}]
        sent == [b1 EXCEPT !.killsSent = @ + 1,
                           !.signalled = (b.proc = "alive")]
    IN  IF isWindows
        THEN \* taskkill /pid <pid> /T /F: fails for a missing or dead pid
             IF b.proc = "alive" /\ ok
             THEN [b |-> sent, st |-> "pending"]
             ELSE [b |-> b1, st |-> "rejected"]
        ELSE \* if (this.chrome.pid) process.kill(-pid)
             IF b.proc = "nopid" THEN [b |-> b1, st |-> "pending"]
             ELSE IF ok THEN [b |-> sent, st |-> "pending"]
             ELSE [b |-> b1, st |-> "rejected"]


\* ----------------------------------------------------------------- facade
\* launch(): `if (opts.handleSIGINT && instances.size === 0) process.on(...)`.
\* n is the number of registrations, regs the registry.
InstallOnLaunch(o, regs, n) ==
  IF o.handleSIGINT /\ regs = {} THEN n + 1 ELSE n

\* The kill closure: `if (instances.size === 0) process.removeListener(...)`,
\* evaluated on the registry after instances.delete(instance).
\* removeListener takes away one registration, if there is one.
RemoveOnKill(regs, n) ==
  IF regs = {} /\ n > 0 THEN n - 1 ELSE n

\* Mutant of KillAllSettle: the catch block drops the error.
KillAllSettleSwallow(task, regs, st) ==
  [ errors |-> task.errors,
    regs   |-> IF st = "resolved" THEN regs \ {task.cur} ELSE regs ]

\* Mutant of KillAllSettle: the instance is deleted whether or not its kill
\* succeeded (the delete sits in a finally block).
KillAllSettleDeleteAlways(task, regs, st) ==
  [ errors |-> IF st = "rejected" THEN Append(task.errors, task.cur)
               ELSE task.errors,
    regs   |-> regs \ {task.cur} ]

\* killAll's loop body after `await instance.kill()` settled with st for
\* task.cur: delete on success, push the error on failure.
KillAllSettle(task, regs, st) ==
  [ errors |-> IF st = "rejected" THEN Append(task.errors, task.cur)
               ELSE task.errors,
    regs   |-> IF st = "resolved" THEN regs \ {task.cur} ELSE regs ]

\* `for (const instance of instances)`: a Set is iterated in insertion
\* order and the iteration sees entries added after it began.  Launchers are
\* inserted in the order of their numbers and never re-inserted, so the
\* entry after cur is the least member above cur; 0 when there is none.
NextOf(regs, cur) ==
  IF \E j \in regs : j > cur
  THEN CHOOSE j \in regs : j > cur /\ \A k \in regs : k > cur => j <= k
  ELSE 0

\* History: a launch() or a handle's kill() runs while killAll is suspended.
Disturb(k) ==
  [t \in Tasks |-> IF k[t].pc = "awaiting"
                   THEN [k[t] EXCEPT !.disturbed = TRUE] ELSE k[t]]

\* History: another killAll activation runs while killAll is suspended.
Overlap(k, t) ==
  [u \in Tasks |-> IF u # t /\ k[u].pc = "awaiting"
                   THEN [k[u] EXCEPT !.overlapped = TRUE] ELSE k[u]]

InFlight(b) == b.pc \in {"portcheck", "getport", "probing", "delay"}

\* killAll's loop from the entry after task.cur: call kill() on it and
\* suspend, or return the errors when the iteration is over.
KillAllIterate(t, task, regs, ok) ==
  LET n == NextOf(regs, task.cur) IN
  IF n = 0
  THEN /\ ka' = [Overlap(ka, t) EXCEPT ![t] = [task EXCEPT !.pc = "done", !.cur = 0]]
       /\ kp' = [kp EXCEPT ![TaskCaller(t)].st = "idle"]
       /\ inst' = inst
  ELSE LET r == Kill(inst[n], TaskCaller(t), ok) IN
       /\ inst' = [inst EXCEPT ![n] = r.b]
       /\ kp' = [kp EXCEPT ![TaskCaller(t)] = [@ EXCEPT !.st = r.st, !.target = n]]
       /\ ka' = [Overlap(ka, t) EXCEPT ![t] =
                   [task EXCEPT !.pc = "awaiting", !.cur = n,
                                !.rejected = IF r.st = "rejected"
                                             THEN @ \cup {n} ELSE @]]

\* A continuation is queued as a microtask: killAll's after the kill() it
\* awaits has settled, sigintListener's after its killAll() returned.
MicrotaskPending ==
  \/ \E t \in Tasks :
       ka[t].pc = "awaiting" /\ kp[TaskCaller(t)].st \in {"resolved", "rejected"}
  \/ ka["sigint"].pc = "done"

\* The event loop delivers an event (a socket's connect or error, a timer,
\* a child's close, a file-system callback, a signal) only when the
\* microtask queue is empty.  Calls made by the host's own code are not
\* events: they may run in the same turn as anything else.
EventDelivered == host.up /\ ~MicrotaskPending

\* Mutant of Launch: the Launcher is constructed after the listener is
\* installed and the slot registered, so a throwing constructor leaves both.
LaunchRegisterFirst(i, o, e) ==
  /\ host.up
  /\ inst[i].pc = "none"
  /\ \A j \in Inst : j < i => inst[j].pc # "none"
  /\ listeners' = InstallOnLaunch(o, instances, listeners)
  /\ instances' = instances \cup {i}
  /\ inst' = [inst EXCEPT ![i] =
                IF o.udd = "true"
                THEN Reject([NoInstance EXCEPT !.optUDD = "true"],
                            "InvalidUserDataDirectory")
                ELSE LauncherLaunch(Constructor(o), e)]
  /\ ka' = Disturb(ka)
  /\ UNCHANGED <<platform, kp, host>>

\* launch(opts): construct, install the listener, register, start the
\* Launcher's launch.  opts.userDataDir = true throws in the constructor.
Launch(i, o, e) ==
  /\ host.up
  /\ inst[i].pc = "none"
  /\ \A j \in Inst : j < i => inst[j].pc # "none"
  /\ IF o.udd = "true"
     THEN /\ inst' = [inst EXCEPT ![i] =
                        Reject([NoInstance EXCEPT !.optUDD = "true"],
                               "InvalidUserDataDirectory")]
          /\ UNCHANGED <<instances, listeners, ka>>
     ELSE /\ listeners' = InstallOnLaunch(o, instances, listeners)
          /\ instances' = instances \cup {i}
          /\ inst' = [inst EXCEPT ![i] = LauncherLaunch(Constructor(o), e)]
          /\ ka' = Disturb(ka)
  /\ UNCHANGED <<platform, kp, host>>

\* Mutant of PortChecked: the `return` is missing, so a launch whose port
\* already answers goes on to spawn.
PortCheckedFallThrough(b, ok, e) == LaunchRest(b, e)

\* Launcher.launch after the port check's probe: `return await
\* this.isDebuggerReady()` on success, the normal launch after the catch.
PortChecked(b, ok, e) == IF ok THEN Resolve(b) ELSE LaunchRest(b, e)

\* The port check's probe answers.
PortCheckDone(i, ok, e) ==
  /\ EventDelivered
  /\ inst[i].pc = "portcheck"
  /\ inst' = [inst EXCEPT ![i] =
                PortChecked([@ EXCEPT !.portCheckOK = ok], ok, e)]
  /\ UNCHANGED <<platform, instances, listeners, kp, ka, host>>

\* getRandomPort() resolves: `this.port = await getRandomPort()`, then spawn.
GetPortDone(i, e) ==
  /\ EventDelivered
  /\ inst[i].pc = "getport"
  /\ inst' = [inst EXCEPT ![i] = SpawnBody([@ EXCEPT !.port = RandomPort], e)]
  /\ UNCHANGED <<platform, instances, listeners, kp, ka, host>>

\* A readiness probe of waitUntilReady answers.
ProbeDone(i, ok) ==
  /\ EventDelivered
  /\ inst[i].pc = "probing"
  /\ inst' = [inst EXCEPT ![i] =
                IF ok THEN Resolve(SpawnReturned([@ EXCEPT !.probeOK = TRUE]))
                ELSE ProbeFailed(@)]
  /\ UNCHANGED <<platform, instances, listeners, kp, ka, host>>

\* delay(connectionPollInterval) elapses: the next poll().
DelayDone(i) ==
  /\ EventDelivered
  /\ inst[i].pc = "delay"
  /\ inst' = [inst EXCEPT ![i] = Poll(@)]
  /\ UNCHANGED <<platform, instances, listeners, kp, ka, host>>

\* The handle's kill(): unregister, maybe remove the listener, kill.
HandleKill(i, ok) ==
  /\ host.up
  /\ inst[i].pc = "resolved"
  /\ kp[HandleOf(i)].st \in {"idle", "resolved", "rejected"}
  /\ kp[HandleOf(i)].calls < MaxHandleKills
  /\ instances' = instances \ {i}
  /\ listeners' = RemoveOnKill(instances', listeners)
  /\ LET r == Kill(inst[i], HandleOf(i), ok) IN
       /\ inst' = [inst EXCEPT ![i] = r.b]
       /\ kp' = [kp EXCEPT ![HandleOf(i)] =
                   [st |-> r.st, target |-> i, calls |-> @.calls + 1]]
  /\ ka' = Disturb(ka)
  /\ UNCHANGED <<platform, host>>

\* killAll() is called: the loop up to the first `await instance.kill()`.
KillAllCall(t, ok) ==
  /\ host.up
  /\ ka[t].pc \in {"idle", "done"}
  /\ LET task == [IdleTask EXCEPT
                    !.calls = ka[t].calls + 1,
                    !.atCall = instances,
                    !.startEmpty = (instances = {}),
                    !.disturbed =
                       \/ \E i \in Inst : InFlight(inst[i])
                       \/ \E i \in Inst : kp[HandleOf(i)].st \in {"pending", "rm"},
                    !.overlapped = \E u \in Tasks \ {t} : ka[u].pc = "awaiting"]
     IN KillAllIterate(t, task, instances, ok)
  /\ UNCHANGED <<platform, instances, listeners, host>>

\* The host calls killAll().
UserKillAll(ok) ==
  /\ ka["user"].calls < MaxKillAll
  /\ KillAllCall("user", ok)

\* SIGINT is delivered and sigintListener runs: `await killAll()`.
Sigint(ok) ==
  /\ EventDelivered
  /\ listeners > 0
  /\ ka["sigint"].pc = "idle"
  /\ KillAllCall("sigint", ok)

\* killAll() resumes after the awaited kill() settled.
KillAllStep(t, ok) ==
  /\ host.up
  /\ ka[t].pc = "awaiting"
  /\ kp[TaskCaller(t)].st \in {"resolved", "rejected"}
  /\ LET s == KillAllSettle(ka[t], instances, kp[TaskCaller(t)].st) IN
       /\ instances' = s.regs
       /\ KillAllIterate(t, [ka[t] EXCEPT !.errors = s.errors], s.regs, ok)
  /\ UNCHANGED <<platform, listeners, host>>

\* sigintListener after `await killAll()`: process.exit(_SIGINT_EXIT_CODE).
SigintExit ==
  /\ host.up
  /\ ka["sigint"].pc = "done"
  /\ host' = [up |-> FALSE, code |-> SIGINT_EXIT_CODE]
  /\ UNCHANGED <<platform, inst, instances, listeners, kp, ka>>

\* The child exits and its 'close' is emitted: every listener that kill()
\* registered runs `delete this.chrome; this.destroyTmp().then(resolve)`.
ChildClose(i) ==
  /\ EventDelivered
  /\ inst[i].proc = "alive"
  /\ LET b  == [inst[i] EXCEPT !.proc = "exited", !.signalled = FALSE,
                               !.closeL = {}]
         b1 == IF inst[i].closeL = {} THEN b
               ELSE DestroyTmp([b EXCEPT !.chrome = FALSE])
         waiting == {c \in inst[i].closeL :
                       kp[c].st = "pending" /\ kp[c].target = i}
     IN /\ inst' = [inst EXCEPT ![i] =
                      [b1 EXCEPT !.killedOK =
                         @ \/ (waiting # {} /\ ~b1.rmPending)]]
        /\ kp' = [c \in Callers |->
                    IF c \in waiting
                    THEN [kp[c] EXCEPT !.st = IF b1.rmPending THEN "rm"
                                              ELSE "resolved"]
                    ELSE kp[c]]
  /\ UNCHANGED <<platform, instances, listeners, ka, host>>

\* Mutant of RmDone: rm takes the parent of the temporary directories, so
\* the directory of every other instance goes with it.
RmDoneParent(i) ==
  /\ EventDelivered
  /\ inst[i].rmPending
  /\ LET waiting == {c \in Callers : kp[c].st = "rm" /\ kp[c].target = i} IN
       /\ inst' = [j \in Inst |->
                     IF j = i
                     THEN [RmTree(inst[j]) EXCEPT !.killedOK = @ \/ waiting # {}]
                     ELSE IF inst[j].tmpDir = "exists"
                          THEN [inst[j] EXCEPT !.tmpDir = "removed"]
                          ELSE inst[j]]
       /\ kp' = [c \in Callers |->
                   IF c \in waiting THEN [kp[c] EXCEPT !.st = "resolved"]
                   ELSE kp[c]]
  /\ UNCHANGED <<platform, instances, listeners, ka, host>>

\* The callback of rm runs: the tree is gone, destroyTmp's promise and with
\* it the kill() promise resolve.
RmDone(i) ==
  /\ EventDelivered
  /\ inst[i].rmPending
  /\ LET waiting == {c \in Callers : kp[c].st = "rm" /\ kp[c].target = i} IN
       /\ inst' = [inst EXCEPT ![i] =
                     [RmTree(@) EXCEPT !.killedOK = @ \/ waiting # {}]]
       /\ kp' = [c \in Callers |->
                   IF c \in waiting THEN [kp[c] EXCEPT !.st = "resolved"]
                   ELSE kp[c]]
  /\ UNCHANGED <<platform, instances, listeners, ka, host>>

\* ------------------------------------------ the Launcher class used directly
\* The host constructs a Launcher itself and calls its launch(): nothing is
\* registered and no listener installed.
NewLauncher(i, o, e) ==
  /\ host.up
  /\ inst[i].pc = "none"
  /\ \A j \in Inst : j < i => inst[j].pc # "none"
  /\ inst' = [inst EXCEPT ![i] =
                IF o.udd = "true"
                THEN Reject([NoInstance EXCEPT !.optUDD = "true"],
                            "InvalidUserDataDirectory")
                ELSE LauncherLaunch(Constructor(o), e)]
  /\ UNCHANGED <<platform, instances, listeners, kp, ka, host>>

\* The Launcher as the second call of launch() sees it: the fields are
\* shared, the promise, its error, waitUntilReady's counter and the pid to
\* return are the call's own.  Swap is its own inverse.
Swap(b) ==
  [b EXCEPT !.pc = b.again.pc, !.err = b.again.err,
            !.retries = b.again.retries, !.ret = b.again.ret,
            !.again = [@ EXCEPT !.pc = b.pc, !.err = b.err,
                                !.retries = b.retries, !.ret = b.ret]]

\* The outcome r of a step of the second call, seen from the first again;
\* the handle the facade built from the first call is not touched.
SecondCall(b, r) ==
  [Swap(r) EXCEPT !.handlePort = b.handlePort, !.handlePid = b.handlePid]

\* The host calls launch() a second time on Launcher i.
LaunchAgain(i, e) ==
  /\ host.up
  /\ inst[i].created
  /\ inst[i].again.pc = "none"
  /\ LET b == [inst[i] EXCEPT
                 !.again = [@ EXCEPT !.attached = inst[i].chrome,
                                     !.spawns0 = inst[i].spawns,
                                     !.allocs0 = inst[i].portAllocs,
                                     !.writes0 = inst[i].pidWrites,
                                     !.pid0 = inst[i].childPid]]
     IN inst' = [inst EXCEPT ![i] = SecondCall(b, LauncherLaunch(Swap(b), e))]
  /\ UNCHANGED <<platform, instances, listeners, kp, ka, host>>

\* The port check's probe of the second call answers.
AgainPortCheckDone(i, ok, e) ==
  /\ EventDelivered
  /\ inst[i].again.pc = "portcheck"
  /\ inst' = [inst EXCEPT ![i] = SecondCall(@, PortChecked(Swap(@), ok, e))]
  /\ UNCHANGED <<platform, instances, listeners, kp, ka, host>>

\* getRandomPort() of the second call resolves.
AgainGetPortDone(i, e) ==
  /\ EventDelivered
  /\ inst[i].again.pc = "getport"
  /\ inst' = [inst EXCEPT ![i] =
                SecondCall(@, SpawnBody([Swap(@) EXCEPT !.port = RandomPort], e))]
  /\ UNCHANGED <<platform, instances, listeners, kp, ka, host>>

\* A readiness probe of the second call answers.
AgainProbeDone(i, ok) ==
  /\ EventDelivered
  /\ inst[i].again.pc = "probing"
  /\ inst' = [inst EXCEPT ![i] =
                SecondCall(@, IF ok THEN Resolve(SpawnReturned(Swap(@)))
                              ELSE ProbeFailed(Swap(@)))]
  /\ UNCHANGED <<platform, instances, listeners, kp, ka, host>>

\* The delay of the second call elapses.
AgainDelayDone(i) ==
  /\ EventDelivered
  /\ inst[i].again.pc = "delay"
  /\ inst' = [inst EXCEPT ![i] = SecondCall(@, Poll(Swap(@)))]
  /\ UNCHANGED <<platform, instances, listeners, kp, ka, host>>

\* The host calls kill() on Launcher i.
DirectKill(i, ok) ==
  /\ host.up
  /\ inst[i].created
  /\ kp[DirectOf(i)].st \in {"idle", "resolved", "rejected"}
  /\ kp[DirectOf(i)].calls < MaxHandleKills
  /\ LET r == Kill(inst[i], DirectOf(i), ok) IN
       /\ inst' = [inst EXCEPT ![i] = r.b]
       /\ kp' = [kp EXCEPT ![DirectOf(i)] =
                   [st |-> r.st, target |-> i, calls |-> @.calls + 1]]
  /\ UNCHANGED <<platform, instances, listeners, ka, host>>

\* ---------------------------------------------------------- specification
Opts ==
  [ udd : {"undef", "path", "false", "true"}, handleSIGINT : BOOLEAN,
    port : {0, FixedPort}, maxRetries : 0..MaxRetries, chromePath : BOOLEAN ]

LaunchEnv ==
  [ install : BOOLEAN, io : {"ok", "out", "err"},
    spawn : {"pid", "nopid", "throw"} ]

\* The lifecycle reads the platform in three ways: membership in
\* _SUPPORTED_PLATFORMS, isWindows, and (in the flags only) linux.
LifecyclePlatforms == {"linux", "win32", "freebsd"}

InitOn(P) ==
  /\ platform \in P
  /\ inst = [i \in Inst |-> NoInstance]
  /\ instances = {}
  /\ listeners = 0
  /\ kp = [c \in Callers |-> IdlePromise]
  /\ ka = [t \in Tasks |-> IdleTask]
  /\ host = [up |-> TRUE, code |-> 0]

\* SpecOne: one launch() call with every option, in every environment, with
\* the kill() of its handle, killAll() and SIGINT.
InitOne == InitOn(LifecyclePlatforms)

NextOne ==
  \/ \E o \in Opts, e \in LaunchEnv : Launch(1, o, e)
  \/ \E ok \in BOOLEAN, e \in LaunchEnv : PortCheckDone(1, ok, e)
  \/ \E e \in LaunchEnv : GetPortDone(1, e)
  \/ \E ok \in BOOLEAN : ProbeDone(1, ok)
  \/ DelayDone(1)
  \/ \E ok \in BOOLEAN : HandleKill(1, ok)
  \/ \E ok \in BOOLEAN : UserKillAll(ok)
  \/ \E ok \in BOOLEAN : Sigint(ok)
  \/ \E t \in Tasks, ok \in BOOLEAN : KillAllStep(t, ok)
  \/ SigintExit
  \/ ChildClose(1)
  \/ RmDone(1)

SpecOne == InitOne /\ [][NextOne]_vars

\* Spec: the registry.  MaxInst launch() calls that differ in handleSIGINT
\* and in whether userDataDir is left out or is true; each allocates its
\* port (no port check), has maxConnectionRetries = 0 (no delay), a
\* generated directory and a given executable, and spawns or fails to spawn
\* on linux.
OptsRegistry ==
  {o \in Opts : o.udd \in {"undef", "true"} /\ o.port = 0
                 /\ o.maxRetries = 0 /\ o.chromePath}

EnvRegistry ==
  {e \in LaunchEnv : e.install /\ e.io = "ok" /\ e.spawn \in {"pid", "throw"}}

Init == InitOn({"linux"})

Next ==
  \/ \E i \in Inst, o \in OptsRegistry, e \in EnvRegistry : Launch(i, o, e)
  \/ \E i \in Inst, e \in EnvRegistry : GetPortDone(i, e)
  \/ \E i \in Inst, ok \in BOOLEAN : ProbeDone(i, ok)
  \/ \E i \in Inst, ok \in BOOLEAN : HandleKill(i, ok)
  \/ \E ok \in BOOLEAN : UserKillAll(ok)
  \/ \E ok \in BOOLEAN : Sigint(ok)
  \/ \E t \in Tasks, ok \in BOOLEAN : KillAllStep(t, ok)
  \/ SigintExit
  \/ \E i \in Inst : ChildClose(i)
  \/ \E i \in Inst : RmDone(i)

Spec == Init /\ [][Next]_vars

\* SpecOneLive: SpecOne with the progress the event loop guarantees: a
\* settled promise's continuation runs, a timer fires, a probe and
\* getRandomPort answer, the rm callback runs, and a process that was sent
\* a termination exits.  Calls by the host, the arrival of SIGINT and a
\* child exiting by itself are not forced.
FairOne ==
  /\ \A t \in Tasks : WF_vars(\E ok \in BOOLEAN : KillAllStep(t, ok))
  /\ WF_vars(SigintExit)
  /\ WF_vars(RmDone(1))
  /\ WF_vars(ChildClose(1) /\ inst[1].signalled)
  /\ WF_vars(\E ok \in BOOLEAN : ProbeDone(1, ok))
  /\ WF_vars(DelayDone(1))
  /\ WF_vars(\E e \in LaunchEnv : GetPortDone(1, e))
  /\ WF_vars(\E ok \in BOOLEAN, e \in LaunchEnv : PortCheckDone(1, ok, e))

SpecOneLive == SpecOne /\ FairOne

\* SpecFlags: one launch() on each supported platform with every
\* combination of the options the flags getter reads; the executable is
\* given, the files open and the spawn returns a child.
ExtraFlags ==
  { <<>>, <<"--foo">>, <<"--foo", "--foo">>, <<"--bar", "--foo">>,
    <<"--disable-setuid-sandbox">> }

FlagOpts ==
  [ udd : {"undef", "path", "false"}, handleSIGINT : {TRUE},
    port : {0, FixedPort}, maxRetries : {0}, chromePath : {TRUE},
    ignoreDefaultFlags : BOOLEAN, chromeFlags : ExtraFlags,
    startingUrl : {"about:blank", "https://example.com"} ]

FlagEnv == {e \in LaunchEnv : e.install /\ e.io = "ok" /\ e.spawn = "pid"}

InitFlags == InitOn(SUPPORTED_PLATFORMS)

NextFlags ==
  \/ \E o \in FlagOpts, e \in FlagEnv : Launch(1, o, e)
  \/ \E ok \in BOOLEAN, e \in FlagEnv : PortCheckDone(1, ok, e)
  \/ \E e \in FlagEnv : GetPortDone(1, e)
  \/ \E ok \in BOOLEAN : ProbeDone(1, ok)

SpecFlags == InitFlags /\ [][NextFlags]_vars

\* SpecAgain: one Launcher the host constructed itself, launch() called on
\* it up to twice, at any moments, and kill().
OptsAgain ==
  {o \in Opts : o.udd \in {"undef", "path"} /\ o.handleSIGINT /\ o.chromePath}

EnvAgain == {e \in LaunchEnv : e.install /\ e.io \in {"ok", "err"}}

InitAgain == InitOn({"linux", "win32"})

NextAgain ==
  \/ \E o \in OptsAgain, e \in EnvAgain : NewLauncher(1, o, e)
  \/ \E e \in EnvAgain : LaunchAgain(1, e)
  \/ \E ok \in BOOLEAN, e \in EnvAgain : PortCheckDone(1, ok, e)
  \/ \E e \in EnvAgain : GetPortDone(1, e)
  \/ \E ok \in BOOLEAN : ProbeDone(1, ok)
  \/ DelayDone(1)
  \/ \E ok \in BOOLEAN, e \in EnvAgain : AgainPortCheckDone(1, ok, e)
  \/ \E e \in EnvAgain : AgainGetPortDone(1, e)
  \/ \E ok \in BOOLEAN : AgainProbeDone(1, ok)
  \/ AgainDelayDone(1)
  \/ \E ok \in BOOLEAN : DirectKill(1, ok)
  \/ ChildClose(1)
  \/ RmDone(1)

SpecAgain == InitAgain /\ [][NextAgain]_vars

\* SpecPrefs: one launch() call with or without preference overrides, with
\* every answer of the file system to the merge of the Preferences file.
PrefsIO == {"absent", "present", "exists", "read", "parse", "write"}

PrefsOpts ==
  [ udd : {"undef", "path", "false"}, handleSIGINT : {TRUE},
    port : {0, FixedPort}, maxRetries : 0..MaxRetries, chromePath : {TRUE},
    prefs : {{}, {"homepage"}} ]

PrefsEnv ==
  [ install : {TRUE}, io : {"ok", "out", "err"},
    spawn : {"pid", "nopid", "throw"}, prefs : PrefsIO ]

InitPrefs == InitOn(LifecyclePlatforms)

NextPrefs ==
  \/ \E o \in PrefsOpts, e \in PrefsEnv : Launch(1, o, e)
  \/ \E ok \in BOOLEAN, e \in PrefsEnv : PortCheckDone(1, ok, e)
  \/ \E e \in PrefsEnv : GetPortDone(1, e)
  \/ \E ok \in BOOLEAN : ProbeDone(1, ok)
  \/ DelayDone(1)

SpecPrefs == InitPrefs /\ [][NextPrefs]_vars

\* ------------------------------------------------------------------ claims
Created == {i \in Inst : inst[i].created}

\* C1: once a kill of an instance has completed successfully, a directory
\* that the Launcher created with makeTmpDir no longer exists; in every
\* user-data-directory mode, and also when the launch failed after
\* Preparing (spawn failure, readiness timeout).
C1_CreatedDirGoneAfterKill ==
  \A i \in Created :
    ( /\ inst[i].killedOK
      /\ \/ inst[i].pc = "resolved"
         \/ inst[i].pc = "rejected"
            /\ inst[i].err \in {"SpawnFailure", "ConnectionTimeout"} )
    => inst[i].tmpDir # "exists"

\* C2: a directory the caller passed as an explicit path is never removed,
\* and in the default-profile mode (userDataDir = false) the Launcher
\* removes nothing at all, so not the default profile either.
C2_CallerDirNeverRemoved ==
  \A i \in Created :
    /\ inst[i].pathDir # "removed"
    /\ inst[i].optUDD = "false" =>
         ~inst[i].rmPending /\ inst[i].tmpDir # "removed"

\* C2 witness: a launch with an explicit path whose process was killed and
\* whose kill resolved, the directory still there.
C2_Witness ==
  \E i \in Created :
    /\ inst[i].optUDD = "path"
    /\ inst[i].killedOK
    /\ inst[i].killsSent > 0
    /\ inst[i].proc = "exited"
    /\ inst[i].pathDir = "exists"

\* C3: when a non-zero port is requested and the first probe connects,
\* launch resolves with no process spawned, no directory created, no log
\* file opened and the requested port in the handle; a kill on that handle
\* resolves and terminates nothing.
C3_ReuseListeningPort ==
  \A i \in Created :
    inst[i].portCheckOK =>
      /\ inst[i].requestedPort # 0
      /\ inst[i].pc = "resolved"
      /\ inst[i].handlePort = inst[i].requestedPort
      /\ inst[i].spawns = 0 /\ inst[i].proc = "none" /\ ~inst[i].chrome
      /\ inst[i].tmpDir = "none"
      /\ inst[i].fdOut = "none" /\ inst[i].fdErr = "none"
      /\ inst[i].probes = 0
      /\ inst[i].killsSent = 0
      /\ kp[HandleOf(i)].st \in {"idle", "resolved"}

\* C3 witness: a reused port whose handle's kill has resolved.
C3_Witness ==
  \E i \in Created :
    /\ inst[i].portCheckOK
    /\ inst[i].handlePort = FixedPort
    /\ kp[HandleOf(i)].st = "resolved"
    /\ kp[HandleOf(i)].calls = 1

\* Exhausted(b): waitUntilReady made its last probe and that probe failed.
RetriesExhausted(b) ==
  b.pc \in {"rejected", "hung"} /\ b.probes > 0 /\ ~b.probeOK
  /\ b.err \in {"none", "ConnectionTimeout"}

\* The counting part of C4: never more than maxConnectionRetries + 1
\* probes, one delay between two probes, none after the last.
ProbeCounting ==
  \A i \in Created :
    /\ inst[i].probes <= inst[i].maxRetries + 1
    /\ inst[i].pc = "probing" => inst[i].delays = inst[i].probes - 1
    /\ inst[i].pc = "delay" => inst[i].delays = inst[i].probes
    /\ RetriesExhausted(inst[i]) =>
         /\ inst[i].probes = inst[i].maxRetries + 1
         /\ inst[i].delays = inst[i].maxRetries

\* C4: with maxConnectionRetries = N and no probe ever connecting,
\* WaitingReady makes exactly N + 1 probes with a delay between every two
\* and none after the last, and then launch fails with the connection
\* error.
C4_RetryExhaustion ==
  /\ ProbeCounting
  /\ \A i \in Created :
       RetriesExhausted(inst[i]) =>
         inst[i].pc = "rejected" /\ inst[i].err = "ConnectionTimeout"

\* The set of instances whose error killAll pushed.
ErrorSet(task) == {task.errors[k] : k \in 1..Len(task.errors)}

\* killAll's errors are, one each, those of the kills that rejected in the
\* call: at every moment no error twice and none that did not reject, and
\* on return all of them.
ErrorsAreRejections ==
  \A t \in Tasks :
    /\ Cardinality(ErrorSet(ka[t])) = Len(ka[t].errors)
    /\ ErrorSet(ka[t]) \subseteq ka[t].rejected
    /\ ka[t].pc = "done" => ErrorSet(ka[t]) = ka[t].rejected

\* killAll() called on an empty registry returns at once with no error and
\* changes no Launcher, no process, not the registry, not the listener.
EmptyKillAllIsNoOp ==
  \A t \in Tasks :
    (ka'[t].calls = ka[t].calls + 1 /\ instances = {}) =>
      /\ ka'[t].pc = "done" /\ ka'[t].errors = <<>>
      /\ inst' = inst /\ instances' = instances
      /\ listeners' = listeners /\ host' = host

\* C5: killAll never rejects: whatever the registry holds and however each
\* kill ends, it returns exactly one error per instance whose kill rejected
\* during the call; on an empty registry it returns the empty list and
\* changes nothing.
C5_KillAllReturnsErrors ==
  [](ErrorsAreRejections) /\ [][EmptyKillAllIsNoOp]_vars

\* C5 witness: a killAll that returned one error, for a registered instance
\* whose kill rejected, after the kill of another instance had resolved.
C5_Witness ==
  \E t \in Tasks : \E i, j \in Created :
    /\ ka[t].pc = "done"
    /\ ka[t].errors = <<i>>
    /\ i # j /\ inst[j].killedOK /\ inst[j].killsSent > 0

\* killAll activation t returns in this step.
Returns(t) ==
  /\ ka'[t].pc = "done"
  /\ ka[t].pc = "awaiting" \/ ka'[t].calls # ka[t].calls

\* C6 as stated: when killAll returns and no launch or handle kill ran
\* concurrently with it, the registry holds exactly the instances whose
\* kill rejected during the call.
C6_RegistryIsRejected ==
  [][ \A t \in Tasks :
        (Returns(t) /\ ~ka'[t].disturbed) =>
          instances' = ka'[t].rejected ]_vars

\* C6 amended: the same when, in addition, no other killAll activation (the
\* interrupt handler's, or the host's) ran concurrently with it.
C6_RegistryIsRejectedAlone ==
  [][ \A t \in Tasks :
        (Returns(t) /\ ~ka'[t].disturbed /\ ~ka'[t].overlapped) =>
          instances' = ka'[t].rejected ]_vars

\* C6 witness: an undisturbed killAll has returned; the instance whose kill
\* rejected is registered, the one whose process it killed is not.
C6_Witness ==
  \E t \in Tasks : \E i, j \in Created :
    /\ ka[t].pc = "done" /\ ~ka[t].disturbed /\ ~ka[t].overlapped
    /\ ka[t].rejected = {i} /\ instances = {i}
    /\ j # i /\ inst[j].killedOK /\ inst[j].killsSent > 0

\* No kill() of instance i is under way, and no killAll is about to act on
\* the outcome of one.
NoKillUnderWay(i) ==
  /\ \A c \in Callers : kp[c].st \in {"pending", "rm"} => kp[c].target # i
  /\ \A t \in Tasks : ka[t].pc = "awaiting" => ka[t].cur # i

\* C7: an instance created through launch() is in the registry exactly when
\* no kill of it has completed successfully; a kill through the handle that
\* fails leaves it registered.  Read at the moments when no kill of the
\* instance is under way.
C7_RegisteredIffNotKilled ==
  \A i \in Created :
    NoKillUnderWay(i) => (i \in instances <=> ~inst[i].killedOK)

\* C8: when every launch asked for interrupt handling, the listener is
\* installed exactly when the registry is not empty.
C8_ListenerIffRegistryNonEmpty ==
  (\A i \in Created : inst[i].handleSIGINT) =>
    (listeners > 0 <=> instances # {})

\* C9: while the registry holds an instance launched with interrupt
\* handling, the listener is installed.
C9_ListenerWhileHandledInstance ==
  (\E i \in instances : inst[i].handleSIGINT) => listeners > 0

\* C10: once the interrupt handler runs, the host eventually exits with
\* code 130.
C10_InterruptExits130 ==
  (ka["sigint"].pc # "idle") ~> (~host.up /\ host.code = SIGINT_EXIT_CODE)

\* launch() of instance i rejects in this step, after construction.
LaunchFails(i) ==
  inst'[i].created /\ inst'[i].pc = "rejected" /\ inst[i].pc # "rejected"

\* C11: when the launch sequence fails after construction (executable not
\* found, unsupported platform, spawn failure, readiness timeout), launch()
\* rejects with that failure and the instance is in the registry.
C11_FailedLaunchStaysRegistered ==
  [][ \A i \in Inst :
        LaunchFails(i) =>
          /\ inst'[i].err \in {"ChromeNotInstalled", "UnsupportedPlatform",
                               "TypeError", "OpenFailure", "SpawnFailure",
                               "ConnectionTimeout"}
          /\ i \in instances' ]_vars

\* A launch() that threw in the constructor: nothing but the rejection.
ConstructorThrew(b) ==
  b = Reject([NoInstance EXCEPT !.optUDD = "true"], "InvalidUserDataDirectory")

\* C12: a launch with userDataDir = true fails with the invalid-directory
\* error at construction: no directory, no file, no probe, no process, and
\* the registry and the interrupt listener are as they were.
C12_InvalidUserDataDirFailsFirst ==
  /\ [](\A i \in Inst :
          inst[i].optUDD = "true" => ConstructorThrew(inst[i]) /\ i \notin instances)
  /\ [][ \A i \in Inst :
          (inst'[i].optUDD = "true" /\ inst[i].optUDD # "true") =>
            /\ instances' = instances /\ listeners' = listeners
            /\ kp' = kp /\ ka' = ka /\ host' = host
            /\ \A j \in Inst \ {i} : inst'[j] = inst[j] ]_vars

\* C12 witness: the rejected launch came second, the first instance is
\* registered with the listener installed.
C12_Witness ==
  \E i, j \in Inst :
    /\ inst[i].optUDD = "true" /\ inst[i].err = "InvalidUserDataDirectory"
    /\ j \in instances /\ listeners = 1 /\ inst[j].proc = "alive"

\* The kill closure of instance i's handle runs in this step.
HandleKillCalled(i) ==
  kp'[HandleOf(i)].calls = kp[HandleOf(i)].calls + 1

KillCalled(c, i) ==
  \/ c = HandleOf(i) /\ HandleKillCalled(i)
  \/ \E t \in Tasks :
       /\ c = TaskCaller(t)
       /\ ka'[t].pc = "awaiting" /\ ka'[t].cur = i
       /\ ka[t].pc # "awaiting" \/ ka[t].cur # i

\* C15: when the termination attempt of a kill raises an error, the kill
\* rejects, nothing of the instance's directory or descriptors is touched by
\* that call, and the process stays attached to the instance.
C15_FailedKillLeavesInstance ==
  [][ \A i \in Inst : \A c \in Callers :
        (KillCalled(c, i) /\ kp'[c].st = "rejected") =>
          /\ inst[i].chrome /\ inst'[i].chrome
          /\ inst'[i] = [inst[i] EXCEPT !.closeL = @ \cup {c}] ]_vars

\* C15 witness: a kill of the handle rejected; the process is attached and
\* alive and the generated directory is there.
C15_Witness ==
  \E i \in Created :
    /\ kp[HandleOf(i)].st = "rejected" /\ kp[HandleOf(i)].target = i
    /\ inst[i].chrome /\ inst[i].proc = "alive"
    /\ inst[i].tmpDir = "exists" /\ inst[i].fdOut = "open"

\* C16: a kill of an instance with no process attached resolves and does
\* nothing: no termination is sent, no directory removed, no descriptor
\* closed.
C16_KillWithoutProcessIsNoOp ==
  [][ \A i \in Inst : \A c \in Callers :
        (KillCalled(c, i) /\ ~inst[i].chrome) =>
          /\ kp'[c].st = "resolved"
          /\ inst'[i] = [inst[i] EXCEPT !.killedOK = TRUE] ]_vars

\* C16 witness: a kill resolved on a failed launch that spawned nothing and
\* whose directory and descriptors are as prepare() left them.
C16_Witness ==
  \E i \in Created : \E c \in Callers :
    /\ kp[c].st = "resolved" /\ kp[c].target = i
    /\ inst[i].killedOK /\ inst[i].spawns = 0 /\ inst[i].killsSent = 0
    /\ inst[i].pc = "rejected"
    /\ inst[i].tmpDir = "exists" /\ inst[i].fdOut = "open"

\* The launch of b went on after the port check (or had none).
PastPortCheck(b) ==
  b.created /\ b.pc # "portcheck" /\ ~b.portCheckOK

\* C18: on a platform outside the supported four, every launch that gets
\* past the port check fails with UnsupportedPlatform, or with
\* ChromeNotInstalled when no path was given and discovery finds nothing,
\* and with no other error; no directory is created, no log file opened, no
\* process spawned.
C18_UnsupportedPlatformErrors ==
  platform \notin SUPPORTED_PLATFORMS =>
    \A i \in Created :
      PastPortCheck(inst[i]) =>
        /\ inst[i].pc = "rejected"
        /\ inst[i].err \in {"UnsupportedPlatform", "ChromeNotInstalled"}
        /\ inst[i].tmpDir = "none"
        /\ inst[i].fdOut = "none" /\ inst[i].fdErr = "none"
        /\ inst[i].spawns = 0

\* C19: for an instance that opened both log files, once a kill of it has
\* completed successfully both descriptors are closed, whichever the
\* user-data-directory mode.
C19_DescriptorsClosedAfterKill ==
  \A i \in Created :
    (inst[i].killedOK /\ inst[i].ready) =>
      inst[i].fdOut = "closed" /\ inst[i].fdErr = "closed"

\* launch() of instance i has settled.
Settled(i) == inst[i].pc \in {"resolved", "rejected"}

\* C20: a launch that is in WaitingReady eventually resolves or rejects (or
\* the host process has exited), under every interleaving with kill and
\* killAll.
C20_WaitingReadySettles ==
  \A i \in {1} :
    (inst[i].pc \in {"probing", "delay"}) ~> (Settled(i) \/ ~host.up)

SecondCallOnAttached(i) ==
  /\ inst[i].again.pc # "none"
  /\ inst[i].again.attached
  /\ kp[DirectOf(i)].calls = 0

\* C13: a second launch on an instance that has a process attached, with no
\* kill in between, starts no second process, allocates no port, does not
\* write the pid file again, and its spawn step returns the pid of the
\* process the first call started.
C13_SecondSpawnIsIdempotent ==
  \A i \in Created :
    SecondCallOnAttached(i) =>
      LET b == inst[i]
          a == inst[i].again
      IN  /\ b.spawns = a.spawns0
          /\ b.portAllocs = a.allocs0
          /\ b.pidWrites = a.writes0
          /\ b.childPid = a.pid0
          /\ a.pc \in {"probing", "delay"} => a.ret = a.pid0
          /\ (a.pc = "resolved" /\ a.retries > 0) =>
                a.ret = a.pid0 /\ b.pid = a.pid0
          /\ b.pc \in {"probing", "delay", "resolved"} /\ b.retries > 0
                => b.ret = a.pid0

\* C13 witness: both calls resolved from waitUntilReady with the pid of the
\* one process, on the one allocated port.
C13_Witness ==
  \E i \in Created :
    /\ SecondCallOnAttached(i)
    /\ inst[i].again.pc = "resolved" /\ inst[i].again.retries > 0
    /\ inst[i].pc = "resolved"
    /\ inst[i].again.ret = 1 /\ inst[i].ret = 1 /\ inst[i].pid = 1
    /\ inst[i].spawns = 1 /\ inst[i].portAllocs = 1 /\ inst[i].pidWrites = 1

\* C21: the interrupt listener is registered at most once at every moment.
C21_HandlerRegisteredOnce == listeners <= 1

\* C23: killAll works on the registry as it was when it was called: the
\* instance whose kill() a killAll call awaits (and then removes) was
\* registered when that call began.
C23_KillAllUsesSnapshot ==
  \A t \in Tasks : ka[t].pc = "awaiting" => ka[t].cur \in ka[t].atCall

\* C29: every child that was spawned through launch() and is still alive
\* belongs to a registered instance, unless the kill() of that instance's
\* handle was called.
C29_LiveChildIsRegistered ==
  \A i \in Created :
    (inst[i].spawns > 0 /\ inst[i].proc \in {"alive", "nopid"}
       /\ kp[HandleOf(i)].calls = 0)
    => i \in instances

\* C30: an instance on which no kill() was called has started at most one
\* child, however its launch calls interleave.
C30_OneChildBetweenKills ==
  \A i \in Created : kp[DirectOf(i)].calls = 0 => inst[i].spawns <= 1

\* C26: over any sequence of launch calls on one instance the preparation
\* takes effect at most once: makeTmpDir is called at most once and each of
\* the two log files is opened at most once.
C26_PreparedAtMostOnce ==
  \A i \in Created :
    /\ inst[i].dirMakes <= 1
    /\ inst[i].outOpens <= 1
    /\ inst[i].errOpens <= 1

\* The instance without what the preference overrides left in it.
WithoutPrefs(b) ==
  [b EXCEPT !.prefs = {}, !.prefsFile = "none", !.prefsLogged = 0]

\* The options the Launcher b was constructed with, overrides left out.
OptsOf(b) ==
  [ udd |-> b.optUDD, handleSIGINT |-> b.handleSIGINT,
    port |-> b.requestedPort, maxRetries |-> b.maxRetries,
    chromePath |-> TRUE ]

\* The step of Launcher.launch that runs prepare (the call, or the port
\* check's answer), as it leaves an instance with empty overrides in
\* environment e.
LaunchStepPlain(b0, b1, ok, e) ==
  IF b0.pc = "none"
  THEN LauncherLaunch(Constructor(OptsOf(b1)), e)
  ELSE PortChecked(WithoutPrefs([b0 EXCEPT !.portCheckOK = ok]), ok, e)

\* C27: a failure while reading, parsing or writing the preference file
\* never changes the outcome of a launch: whatever the overrides and the
\* file system's answer, the step that prepares leaves the instance as it
\* leaves one with empty overrides, and in the step in which the merge
\* fails the preparation completes and the launch goes on to the spawn as
\* with empty overrides and intact log files.
C27_PrefsFailureIsSwallowed ==
  [][\A i \in Inst :
       /\ (inst[i].pc \in {"none", "portcheck"} /\ inst'[i] # inst[i]
             /\ inst'[i].prefs # {})
          => \E e \in LaunchEnv, ok \in BOOLEAN :
               WithoutPrefs(inst'[i]) = LaunchStepPlain(inst[i], inst'[i], ok, e)
       /\ inst'[i].prefsLogged > inst[i].prefsLogged
          => /\ inst'[i].ready /\ inst'[i].pidFile
             /\ inst'[i].fdOut = "open" /\ inst'[i].fdErr = "open"
             /\ \E e \in LaunchEnv :
                  /\ e.io = "ok"
                  /\ WithoutPrefs(inst'[i]) =
                       LaunchStepPlain(inst[i], inst'[i], FALSE, e)
    ]_vars

\* C27 witness: the merge failed, was logged, and the launch resolved.
C27_Witness ==
  \E i \in Created :
    /\ inst[i].prefs # {} /\ inst[i].prefsLogged > 0
    /\ inst[i].prefsFile = "none"
    /\ inst[i].pc = "resolved" /\ inst[i].probeOK

\* The Launcher has removed the instance's user-data directory or closed
\* one of its log descriptors.
CleanedUp(b) ==
  \/ b.tmpDir = "removed" \/ b.pathDir = "removed"
  \/ b.fdOut = "closed" \/ b.fdErr = "closed"

\* C22: the user-data directory is removed and the log descriptors are
\* closed only after the child's close was received: in no state has the
\* Launcher cleaned up while the child it spawned and has attached has not
\* reported its exit.
C22_CleanupAfterClose ==
  \A i \in Created :
    CleanedUp(inst[i]) => ~(inst[i].chrome /\ inst[i].proc = "alive")

\* The arguments of the latest spawn call carry port p in the
\* debugging-port flag, and no other.
FlagPortIs(b, p) ==
  /\ \E k \in DOMAIN b.flags :
       b.flags[k] = "--remote-debugging-port=" \o Dec(p)
  /\ \A k \in DOMAIN b.flags, q \in {0, FixedPort, RandomPort} :
       b.flags[k] = "--remote-debugging-port=" \o Dec(q) => q = p

\* The port the instance resolves to: the requested one, or the one the
\* allocator returns.
ResolvedPort(b) == IF b.requestedPort # 0 THEN b.requestedPort ELSE RandomPort

\* C24: with a non-zero requested port the allocator is never called and
\* the flag's port, the probed port and the handle's port are the requested
\* value; with port 0 the allocator is called only in the spawn step, after
\* the preparation completed and before the process is started, and its
\* value is the one in the flag, the one probed and the one in the handle.
C24_PortResolution ==
  /\ [](\A i \in Created :
          LET b == inst[i] IN
          /\ b.requestedPort # 0 => b.portAllocs = 0
          /\ b.requestedPort = 0 => b.portProbes = 0
          /\ b.portAllocs > 0 => b.ready
          /\ b.requestedPort = 0 /\ b.spawns > 0 => b.portAllocs > 0
          /\ b.spawns > 0 =>
                b.port = ResolvedPort(b) /\ FlagPortIs(b, ResolvedPort(b))
          /\ b.portProbes + b.probes > 0 => b.probedPort = ResolvedPort(b)
          /\ b.pc = "resolved" => b.handlePort = ResolvedPort(b))
  /\ [][\A i \in Inst :
          inst'[i].portAllocs > inst[i].portAllocs =>
            /\ inst'[i].ready /\ inst'[i].pc = "getport"
            /\ ~inst'[i].chrome /\ inst'[i].spawns = inst[i].spawns
            /\ inst'[i].proc = "none"]_vars

\* C24 witness: port 0, one allocation, and the launch resolved with the
\* allocated port in the flag, probed and in the handle.
C24_Witness ==
  \E i \in Created :
    /\ inst[i].requestedPort = 0 /\ inst[i].portAllocs = 1
    /\ inst[i].pc = "resolved" /\ inst[i].probeOK
    /\ inst[i].handlePort = RandomPort /\ inst[i].probedPort = RandomPort
    /\ FlagPortIs(inst[i], RandomPort)

\* C25: within one instance the phases run in order: no process is
\* spawned before the preparation has completed (directory resolved, both
\* logs opened, pid-file path recorded), no waitUntilReady probe is made
\* before the spawn call has returned, and launch resolves only in the
\* step in which a probe of the instance's port succeeds.
C25_PhaseOrder ==
  /\ [](\A i \in Created :
          LET b == inst[i] IN
          /\ b.spawns > 0 =>
                /\ b.ready /\ b.pidFile /\ b.userDataDir # "undef"
                /\ b.outOpens > 0 /\ b.errOpens > 0
          /\ b.probes > 0 => b.spawns > 0
          /\ b.pc = "resolved" =>
                /\ b.portCheckOK \/ b.probeOK
                /\ b.probedPort = b.port /\ b.handlePort = b.port)
  /\ [][\A i \in Inst :
          /\ inst'[i].spawns > inst[i].spawns => inst'[i].ready
          /\ inst'[i].probes > inst[i].probes =>
                inst'[i].chrome \/ inst[i].pc \in {"probing", "delay"}
          /\ (inst'[i].pc = "resolved" /\ inst[i].pc # "resolved") =>
                /\ inst[i].pc \in {"portcheck", "probing"}
                /\ inst[i].probedPort = inst'[i].port
                /\ inst[i].pc = "probing" => inst'[i].probeOK /\ inst[i].spawns > 0
                /\ inst[i].pc = "portcheck" =>
                      inst'[i].portCheckOK /\ inst'[i].spawns = 0]_vars

\* C25 witness: prepared, spawned, probed, and resolved by a successful
\* waitUntilReady probe after a failed one.
C25_Witness ==
  \E i \in Created :
    /\ inst[i].ready /\ inst[i].spawns = 1 /\ inst[i].probes = 2
    /\ inst[i].pc = "resolved" /\ inst[i].probeOK

\* C28: instances are independent: a step of one instance's launch or
\* kill, its cleanup included, leaves the fields of every other instance
\* (attached process, port, user-data directory, log descriptors, pid
\* file, and all the rest of its record) unchanged.
C28_InstancesIndependent ==
  [][\A a \in Inst, b \in Inst :
       (a # b /\ inst'[a] # inst[a]) => inst'[b] = inst[b]]_vars

\* C28 witness: one instance was killed and its directory removed while
\* the other is running with its directory and its descriptors intact.
C28_Witness ==
  \E a \in Created, b \in Created :
    /\ a # b
    /\ inst[a].killedOK /\ inst[a].tmpDir = "removed"
    /\ inst[a].fdOut = "closed" /\ ~inst[a].chrome
    /\ inst[b].chrome /\ inst[b].proc = "alive" /\ inst[b].pc = "resolved"
    /\ inst[b].tmpDir = "exists" /\ inst[b].fdOut = "open"
    /\ inst[b].fdErr = "open" /\ inst[b].pidWrites = 1

\* C32: whenever a child is spawned, both log descriptors of the instance
\* are open and its resolved user-data directory exists, after any
\* sequence of launch and kill on the same Launcher.
C32_SpawnFindsLogsAndDir ==
  [][\A i \in Inst :
       inst'[i].spawns > inst[i].spawns =>
         /\ inst'[i].fdOut = "open" /\ inst'[i].fdErr = "open"
         /\ inst'[i].outFile /\ inst'[i].errFile
         /\ DirExists(inst'[i])]_vars

\* C31: every kill() call on an instance with a process attached
\* eventually settles (resolves or rejects) while the host runs, given
\* that a process that received the termination reports its exit.
C31_KillSettles ==
  \A c \in Callers :
    (kp[c].st \in {"pending", "rm"})
      ~> (kp[c].st \in {"resolved", "rejected"} \/ ~host.up)

====
